---- MODULE Spec2Model ----
(***************************************************************************)
(* Model of srs_worms/worm_morphology.py: the geometric segmentation of a  *)
(* worm mask into an anterior and a posterior part.                        *)
(*                                                                         *)
(* Arrays keep the source's 0-based indices: a path is a sequence of       *)
(* points <<x, y>> and At(path, i) is path[i]; a mask is an array          *)
(* mask[row][col] (row = y, col = x) of naturals.                          *)
(* Floating-point values are IEEE-754 binary64 values: the angles of       *)
(* get_endpoint_idx are kept as their bit patterns and the lengths of      *)
(* get_quantile_point are computed with correctly rounded operations.      *)
(* The curves that scipy fits in resample_path are not computed: of a      *)
(* resampled path the model knows its length and its two ends.  The index  *)
(* that get_quantile_point returns on the midline is known as a range of   *)
(* indices, and the two samples that divide_mask reads there are any of    *)
(* the values that make cv2.line draw between two pixels at most MaxCut    *)
(* apart and centred within the contour's bounding box; they are the same  *)
(* in every call on the same arrays (fitted).                              *)
(***************************************************************************)
EXTENDS Integers, Sequences, FiniteSets, TLC

VARIABLES
    pc,            \* position of the call being modelled
    err,           \* the exception the call raised, "none" if there is none
    mask,          \* the caller's mask array
    ant_mask,      \* the caller's anterior-reference mask array
    quantile,      \* the quantile, a fraction <<numerator, denominator>>
    path,          \* the contour (border path)
    space,         \* get_endpoint_idx's space
    idx,           \* primary endpoint index
    second_idx,    \* second endpoint index, -1 when not asked for
    head_idx,      \* check_head's head index
    tail_idx,      \* check_head's tail index
    fitted,        \* what the fitted curves evaluate to where the run reads them
    spline,        \* the midline, coordinates in units of 1/Scale (see get_spline)
    mid_point_idx, \* get_quantile_point's index; on a fitted midline, the range
                   \* <<lowest, highest>> of indices it lies in
    labeled_mask,  \* the labeled array handed to select_mask
    anchor,        \* select_mask's anchor
    ret,           \* what the call returned
    history        \* the outcomes of the calls completed before this one

vars == <<pc, err, mask, ant_mask, quantile, path, space, idx, second_idx,
          head_idx, tail_idx, fitted, spline, mid_point_idx, labeled_mask,
          anchor, ret, history>>

(***************************************************************************)
(* Bounds of the model.                                                    *)
(***************************************************************************)
MaxLen == 5      \* longest contour of the endpoint specification
MaxSpace == 2    \* largest space of the endpoint specification

\* contour coordinates of the endpoint specification
Points == {<<0, 0>>, <<1, 0>>, <<2, 0>>, <<0, 1>>, <<1, 1>>, <<2, 1>>}

(***************************************************************************)
(* numpy helpers.                                                          *)
(***************************************************************************)
At(s, i) == s[i + 1]

\* a[lo:hi] for 0 <= lo, hi <= len(a)
Slice(s, lo, hi) == IF hi <= lo THEN << >> ELSE [k \in 1 .. (hi - lo) |-> s[lo + k]]

\* np.concatenate([a[k:], a[:k]]) for 0 <= k <= len(a)
Rotate(s, k) == Slice(s, k, Len(s)) \o Slice(s, 0, k)

Dot(u, v) == u[1] * v[1] + u[2] * v[2]

Sub(u, v) == <<u[1] - v[1], u[2] - v[2]>>

\* The float64 value arccos(clip(d / (sqrt(a) * sqrt(b)), -1, 1)) of lines
\* 40-41 for the dot product d of two vectors of squared lengths a <= b, as
\* the bits <<63..32, 31..16, 15..0>> of its pattern.  The product of the two
\* rounded roots is not always the root of the product (sqrt(2) * sqrt(2) is
\* 2.0000000000000004), so that parallel vectors do not always make the
\* angle 0.  The values are those of the vectors with |x| <= 2 and |y| <= 1.
Arccos64(d, a, b) ==
    CASE <<d, a, b>> \in {<<1, 1, 1>>, <<2, 1, 4>>, <<4, 4, 4>>}
            -> <<0, 0, 0>>                                \* 0.0
      [] <<d, a, b>> \in {<<2, 2, 2>>, <<5, 5, 5>>}
            -> <<1045864606, 26239, 15309>>               \* 2.1073424255447017e-08
      [] <<d, a, b>> = <<3, 2, 5>>
            -> <<1070897039, 41766, 40675>>               \* 0.3217505543966423
      [] <<d, a, b>> \in {<<2, 1, 5>>, <<4, 4, 5>>}
            -> <<1071492199, 1377, 47952>>                \* 0.46364760900080615
      [] <<d, a, b>> \in {<<1, 1, 2>>, <<2, 2, 4>>}
            -> <<1072243195, 21572, 11545>>               \* 0.7853981633974484
      [] <<d, a, b>> = <<3, 5, 5>>
            -> <<1072540775, 1377, 47953>>                \* 0.9272952180016124
      [] <<d, a, b>> = <<1, 1, 5>>
            -> <<1072805601, 37611, 48708>>               \* 1.1071487177940904
      [] <<d, a, b>> = <<1, 2, 5>>
            -> <<1072954391, 27514, 34144>>               \* 1.2490457723982544
      [] <<d, a, b>> \in {<<0, 1, 1>>, <<0, 1, 4>>, <<0, 2, 2>>}
            -> <<1073291771, 21572, 11544>>               \* 1.5707963267948966
      [] <<d, a, b>> = <<-1, 2, 5>>
            -> <<1073629151, 15629, 54481>>               \* 1.892546881191539
      [] <<d, a, b>> = <<-1, 1, 5>>
            -> <<1073759882, 35534, 19958>>               \* 2.0344439357957027
      [] <<d, a, b>> = <<-3, 5, 5>>
            -> <<1073854177, 37611, 48708>>               \* 2.214297435588181
      [] <<d, a, b>> \in {<<-1, 1, 2>>, <<-2, 2, 4>>}
            -> <<1073928572, 32563, 8658>>                \* 2.356194490192345
      [] <<d, a, b>> \in {<<-2, 1, 5>>, <<-4, 4, 5>>}
            -> <<1074097262, 29591, 62894>>               \* 2.677945044588987
      [] <<d, a, b>> = <<-3, 2, 5>>
            -> <<1074171657, 24543, 22844>>               \* 2.819842099193151
      [] <<d, a, b>> \in {<<-2, 2, 2>>, <<-5, 5, 5>>}
            -> <<1074340347, 20848, 6475>>                \* 3.1415926325163688
      [] <<d, a, b>> \in {<<-1, 1, 1>>, <<-2, 1, 4>>, <<-4, 4, 4>>}
            -> <<1074340347, 21572, 11544>>               \* 3.141592653589793

\* The angle of lines 37-41 between the vectors f and b.  A zero vector makes
\* the quotient 0/0, which numpy evaluates to nan.
Angle(f, b) ==
    LET a == Dot(f, f)
        c == Dot(b, b)
    IN  IF a = 0 \/ c = 0 THEN [nan |-> TRUE, bits |-> <<0, 0, 0>>]
        ELSE [nan  |-> FALSE,
              bits |-> Arccos64(Dot(f, b), IF a <= c THEN a ELSE c,
                                           IF a <= c THEN c ELSE a)]

\* a < b on angles (positive floats are ordered as their bit patterns are);
\* false with a nan
AngleLess(a, b) ==
    /\ ~a.nan
    /\ ~b.nan
    /\ \/ a.bits[1] < b.bits[1]
       \/ a.bits[1] = b.bits[1] /\ a.bits[2] < b.bits[2]
       \/ a.bits[1] = b.bits[1] /\ a.bits[2] = b.bits[2] /\ a.bits[3] < b.bits[3]

\* np.argmin: the first nan if there is one, else the first minimum
ArgMin(angles) ==
    LET I    == 0 .. (Len(angles) - 1)
        nans == {i \in I : At(angles, i).nan}
        mins == {i \in I : \A j \in I : ~AngleLess(At(angles, j), At(angles, i))}
        S    == IF nans # {} THEN nans ELSE mins
    IN  CHOOSE i \in S : \A j \in S : i <= j

\* path_forward / path_backward of lines 35-36: the slices of a shift of at
\* least len(path), or of 0, leave the path as it is
Shift(p, s) == IF s >= Len(p) THEN 0 ELSE s

PathForward(p, s) == Rotate(p, (Len(p) - Shift(p, s)) % Len(p))

PathBackward(p, s) == Rotate(p, Shift(p, s))

\* the angles of lines 37-41, as a sequence
Angles(p, s) ==
    LET path_forward  == PathForward(p, s)
        path_backward == PathBackward(p, s)
    IN  << >> \o [k \in 1 .. Len(p) |->
                    Angle(Sub(path_forward[k], p[k]), Sub(path_backward[k], p[k]))]

\* np.where((path == coordinate).all(axis=1))[0][0]
FirstMatch(p, coordinate) ==
    CHOOSE i \in 0 .. (Len(p) - 1) :
        /\ At(p, i) = coordinate
        /\ \A j \in 0 .. (i - 1) : At(p, j) # coordinate

Skip(p) == Len(p) \div 4

\* reordered_angles[skip:-skip]; a skip of 0 makes the slice [0:-0], empty
MiddleSection(p, angles, i) ==
    IF Skip(p) = 0 THEN << >>
    ELSE Slice(Rotate(angles, i), Skip(p), Len(p) - Skip(p))

\* get_second_endpoint, lines 60-66 (defined when the middle section is not empty)
get_second_endpoint(p, angles, i) ==
    LET second     == ArgMin(MiddleSection(p, angles, i))
        coordinate == At(Rotate(p, i), second + Skip(p))
    IN  FirstMatch(p, coordinate)

(***************************************************************************)
(* Masks: arrays mask[row][col] over the grid Rows x Cols.                 *)
(***************************************************************************)
Cols == 0 .. 26

Rows == 0 .. 2

Pixels == {<<x, y>> : x \in Cols, y \in Rows}

\* mask[y, x], 0 outside the image
Px(m, p) == IF p[1] \in Cols /\ p[2] \in Rows THEN m[p[2]][p[1]] ELSE 0

Foreground(m) == {p \in Pixels : Px(m, p) # 0}

ZeroMask == [y \in Rows |-> [x \in Cols |-> 0]]

\* the raster (row-major) order of the pixels
RasterBefore(p, q) == p[2] < q[2] \/ (p[2] = q[2] /\ p[1] < q[1])

RasterFirst(S) == CHOOSE p \in S : \A q \in S : q = p \/ RasterBefore(p, q)

Adjacent8(p, q) ==
    /\ p # q
    /\ p[1] - q[1] \in -1 .. 1
    /\ p[2] - q[2] \in -1 .. 1

\* the 8-connected component of seed in the pixel set S: C grown by the
\* pixels of S next to those, F, that were added last
RECURSIVE Grow(_, _, _)
Grow(S, C, F) ==
    LET N == {q \in S \ C : \E p \in F : Adjacent8(p, q)}
    IN  IF N = {} THEN C ELSE Grow(S, C \cup N, N)

Component(S, seed) == Grow(S, {seed}, {seed})

\* the components of S, in the raster order of their first pixels
RECURSIVE Components(_)
Components(S) ==
    IF S = {} THEN << >>
    ELSE LET C == Component(S, RasterFirst(S))
         IN  <<C>> \o Components(S \ C)

\* skimage.measure.label of a boolean array (full connectivity): label k for
\* the k-th component in raster order, 0 for the background
Label(S) ==
    LET cs == Components(S)
    IN  [y \in Rows |-> [x \in Cols |->
            IF <<x, y>> \in S
            THEN CHOOSE k \in 1 .. Len(cs) : <<x, y>> \in cs[k]
            ELSE 0]]

(***************************************************************************)
(* cv2.findContours(mask, RETR_EXTERNAL, CHAIN_APPROX_SIMPLE): the outer   *)
(* border of each 8-connected component, followed from its raster-first    *)
(* pixel, keeping the points where the chain direction changes.  Masks of  *)
(* the model have no holes that contain other components.                  *)
(***************************************************************************)
\* the chain code directions 0..7: E, NE, N, NW, W, SW, S, SE (y grows downwards)
CodeDeltas == << <<1, 0>>, <<1, -1>>, <<0, -1>>, <<-1, -1>>,
                 <<-1, 0>>, <<-1, 1>>, <<0, 1>>, <<1, 1>> >>

Step(p, s) == <<p[1] + CodeDeltas[s + 1][1], p[2] + CodeDeltas[s + 1][2]>>

\* the first direction, searching clockwise from NW, with a foreground
\* neighbour; 4 (W) when the pixel is alone
StartDir(m, i0) ==
    LET order == <<3, 2, 1, 0, 7, 6, 5>>
        hits  == {k \in 1 .. 7 : Px(m, Step(i0, order[k])) # 0}
    IN  IF hits = {} THEN 4
        ELSE order[CHOOSE k \in hits : \A j \in hits : k <= j]

\* the first direction after s, searching counter-clockwise, in which the
\* pixel i3 has a foreground neighbour
RECURSIVE NextDir(_, _, _, _)
NextDir(m, i3, s, k) ==
    IF Px(m, Step(i3, (s + k) % 8)) # 0 THEN k ELSE NextDir(m, i3, s, k + 1)

\* one turn of the border following loop: from the pixel st.i3, entered
\* from the direction st.s, to the next border pixel; the loop is over (done)
\* when it is about to repeat its first move, from i0 to i1
FollowStep(m, i0, i1, st) ==
    IF st.done THEN st
    ELSE LET s2 == (st.s + NextDir(m, st.i3, st.s, 1)) % 8
             i4 == Step(st.i3, s2)
         IN  [i3     |-> i4,
              s      |-> (s2 + 4) % 8,
              prev_s |-> s2,
              out    |-> IF s2 # st.prev_s THEN Append(st.out, st.i3) ELSE st.out,
              done   |-> i4 = i0 /\ st.i3 = i1]

\* n turns of the loop, its first half first
RECURSIVE Follow(_, _, _, _, _)
Follow(m, i0, i1, st, n) ==
    IF n = 1 THEN FollowStep(m, i0, i1, st)
    ELSE LET half == Follow(m, i0, i1, st, n \div 2)
         IN  IF half.done THEN half ELSE Follow(m, i0, i1, half, n - (n \div 2))

\* the border of the component of i0; the loop passes a pixel at most 4 times
FetchContour(m, i0) ==
    LET s == StartDir(m, i0)
    IN  IF s = 4 THEN <<i0>>
        ELSE Follow(m, i0, Step(i0, s),
                    [i3 |-> i0, s |-> s, prev_s |-> (s + 4) % 8, out |-> << >>,
                     done |-> FALSE],
                    4 * Cardinality(Foreground(m))).out

\* the contours, the last one found first
RECURSIVE ContoursOf(_, _)
ContoursOf(m, S) ==
    IF S = {} THEN << >>
    ELSE LET i0 == RasterFirst(S)
         IN  ContoursOf(m, S \ Component(S, i0)) \o <<FetchContour(m, i0)>>

findContours(m) == ContoursOf(m, Foreground(m))

\* cv2.contourArea: twice the polygon's area (shoelace), an integer
RECURSIVE Shoelace(_, _)
Shoelace(c, k) ==
    IF k > Len(c) THEN 0
    ELSE LET p == c[k]
             q == c[(k % Len(c)) + 1]
         IN  (p[1] * q[2] - q[1] * p[2]) + Shoelace(c, k + 1)

contourArea2(c) == LET a == Shoelace(c, 1) IN IF a < 0 THEN -a ELSE a

\* get_border_path, lines 16-19: <<exception, path>>; max() of no contour
\* raises ValueError, and max() keeps the first of the largest
get_border_path(m) ==
    LET contours == findContours(m)
        areas    == << >> \o [j \in 1 .. Len(contours) |-> contourArea2(contours[j])]
        best     == CHOOSE k \in 1 .. Len(contours) :
                        /\ \A j \in 1 .. Len(contours) : areas[j] <= areas[k]
                        /\ \A j \in 1 .. (k - 1) : areas[j] < areas[k]
    IN  IF contours = << >> THEN <<"ValueError", << >> >>
        ELSE <<"none", contours[best]>>

\* get_endpoint_idx, lines 35-45: <<exception, idx, second_idx>>
get_endpoint_idx(p, s, second) ==
    LET angles == Angles(p, s)
        i      == ArgMin(angles)
    IN  IF ~second THEN <<"none", i, -1>>
        ELSE IF MiddleSection(p, angles, i) = << >>
             THEN <<"ValueError", -1, -1>>     \* argmin of an empty sequence
             ELSE <<"none", i, get_second_endpoint(p, angles, i)>>

(***************************************************************************)
(* check_head, lines 91-98: <<head_idx, tail_idx>>.                        *)
(***************************************************************************)
\* faulty variant, for comparison: the anchor's x used as the row and its y as the column
check_head_xy(p, i, second, ant) ==
    LET a == At(p, i)
    IN  IF ant[a[1]][a[2]] = 0 THEN <<second, i>> ELSE <<i, second>>

check_head(p, i, second, ant) ==
    LET a == At(p, i)
    IN  IF ant[a[2]][a[1]] = 0 THEN <<second, i>> ELSE <<i, second>>

(***************************************************************************)
(* resample_path and get_spline, lines 111-136.  splprep(s=0) fits an      *)
(* interpolating curve through the points, u running from 0 at the first   *)
(* to 1 at the last, and splev evaluates it at num_points values of u from *)
(* 0 to 1; the fit needs more than 3 points and no two consecutive points  *)
(* equal.  A resampled path is a record of its number of points len and of *)
(* the points pts the model knows, by index: the first and the last, which *)
(* are the first and the last point of the path.                           *)
(***************************************************************************)
NumPoints == 5000   \* num_points of resample_path
Scale == 24         \* the midline holds Scale times the averaged coordinates

resample_error(p) ==
    IF Len(p) <= 3 THEN "TypeError"                       \* m > k must hold
    ELSE IF \E k \in 1 .. (Len(p) - 1) : p[k] = p[k + 1]
         THEN "ValueError"                                \* Invalid inputs
         ELSE "none"

resample_path(p) ==
    [len |-> NumPoints,
     pts |-> [i \in {0, NumPoints - 1} |-> IF i = 0 THEN p[1] ELSE p[Len(p)]]]

Reverse(q) == [k \in 1 .. Len(q) |-> q[Len(q) + 1 - k]]

Norm2(u) == Dot(u, u)

\* lines 129-136 with the anchor taken at index a: <<exception, avg_path>>.
\* avg_path holds Scale times the averaged coordinates, which keeps the
\* halves exact; read holds the two points of the averaged and oriented path
\* that divide_mask reads, at mid_point_idx and at mid_point_idx + space
\* (none when the caller reads none).  The two norms of line 134 are ordered
\* as their squares are.
OrientedSpline(p, head, tail, a, fit) ==
    LET small_idx   == IF head <= tail THEN head ELSE tail
        large_idx   == IF head <= tail THEN tail ELSE head
        first_half  == Slice(p, small_idx, large_idx)
        second_half == Reverse(Slice(p, large_idx, Len(p)) \o Slice(p, 0, small_idx))
        r1          == resample_path(first_half)
        r2          == resample_path(second_half)
        last        == NumPoints - 1
        half        == Scale \div 2
        avg_first   == <<half * (r1.pts[0][1] + r2.pts[0][1]),
                         half * (r1.pts[0][2] + r2.pts[0][2])>>
        avg_last    == <<half * (r1.pts[last][1] + r2.pts[last][1]),
                         half * (r1.pts[last][2] + r2.pts[last][2])>>
        anchor_     == <<Scale * At(p, a)[1], Scale * At(p, a)[2]>>
        reversed    == Norm2(Sub(avg_first, anchor_)) > Norm2(Sub(avg_last, anchor_))
        avg_path    == [len  |-> NumPoints,
                        pts  |-> [i \in {0, last} |->
                                     IF (i = 0) = reversed THEN avg_last ELSE avg_first],
                        read |-> fit]
    IN  IF resample_error(first_half) # "none" THEN <<resample_error(first_half), << >> >>
        ELSE IF resample_error(second_half) # "none"
             THEN <<resample_error(second_half), << >> >>
             ELSE <<"none", avg_path>>

\* faulty variant, for comparison: the anchor taken at the smaller of the two indices
get_spline_small(p, head, tail, fit) ==
    OrientedSpline(p, head, tail, IF head <= tail THEN head ELSE tail, fit)

\* get_spline: the anchor is path[head_idx] (line 133)
get_spline(p, head, tail, fit) == OrientedSpline(p, head, tail, head, fit)

(***************************************************************************)
(* IEEE-754 binary64 arithmetic on non-negative values, for the lengths    *)
(* of get_quantile_point.  A natural number                                *)
(* of any size is a sequence of limbs in base 2^15, the least significant  *)
(* first and the most significant not 0; a float is m * 2^e, a record of   *)
(* the natural m (at most 53 bits after rounding) and the integer e.       *)
(***************************************************************************)
Base == 2 ^ 15

Limb(a, k) == IF k <= Len(a) THEN a[k] ELSE 0

RECURSIVE Trim(_)
Trim(a) == IF a # << >> /\ a[Len(a)] = 0 THEN Trim(SubSeq(a, 1, Len(a) - 1)) ELSE a

RECURSIVE BigOfInt(_)
BigOfInt(n) == IF n = 0 THEN << >> ELSE <<n % Base>> \o BigOfInt(n \div Base)

RECURSIVE AddFrom(_, _, _, _)
AddFrom(a, b, k, carry) ==
    IF k > Len(a) /\ k > Len(b)
    THEN (IF carry = 0 THEN << >> ELSE <<carry>>)
    ELSE LET s == Limb(a, k) + Limb(b, k) + carry
         IN  <<s % Base>> \o AddFrom(a, b, k + 1, s \div Base)

BigAdd(a, b) == AddFrom(a, b, 1, 0)

RECURSIVE SubFrom(_, _, _, _)
SubFrom(a, b, k, borrow) ==
    IF k > Len(a) THEN << >>
    ELSE LET s == Limb(a, k) - Limb(b, k) - borrow
         IN  IF s < 0 THEN <<s + Base>> \o SubFrom(a, b, k + 1, 1)
             ELSE <<s>> \o SubFrom(a, b, k + 1, 0)

\* a - b for a >= b
BigSub(a, b) == Trim(SubFrom(a, b, 1, 0))

RECURSIVE LessFrom(_, _, _)
LessFrom(a, b, k) ==
    IF k = 0 THEN FALSE
    ELSE IF a[k] # b[k] THEN a[k] < b[k]
    ELSE LessFrom(a, b, k - 1)

BigLess(a, b) ==
    IF Len(a) # Len(b) THEN Len(a) < Len(b) ELSE LessFrom(a, b, Len(a))

RECURSIVE MulSmallFrom(_, _, _, _)
MulSmallFrom(a, s, k, carry) ==
    IF k > Len(a) THEN (IF carry = 0 THEN << >> ELSE <<carry>>)
    ELSE LET v == a[k] * s + carry
         IN  <<v % Base>> \o MulSmallFrom(a, s, k + 1, v \div Base)

\* a * s for 0 <= s <= Base
BigMulSmall(a, s) == IF s = 0 THEN << >> ELSE MulSmallFrom(a, s, 1, 0)

ShlLimbs(a, n) == IF a = << >> THEN << >> ELSE [k \in 1 .. n |-> 0] \o a

RECURSIVE MulFrom(_, _, _)
MulFrom(a, b, k) ==
    IF k > Len(b) THEN << >>
    ELSE BigAdd(ShlLimbs(BigMulSmall(a, b[k]), k - 1), MulFrom(a, b, k + 1))

BigMul(a, b) == MulFrom(a, b, 1)

\* a * 2^n
BigShl(a, n) == ShlLimbs(BigMulSmall(a, 2 ^ (n % 15)), n \div 15)

\* <<quotient, remainder>> of a by the small number d, from limb k downwards
RECURSIVE DivSmallFrom(_, _, _, _)
DivSmallFrom(a, d, k, rem) ==
    IF k = 0 THEN << << >>, rem >>
    ELSE LET v    == rem * Base + a[k]
             rest == DivSmallFrom(a, d, k - 1, v % d)
         IN  <<Append(rest[1], v \div d), rest[2]>>

BigDivSmall(a, d) ==
    LET r == DivSmallFrom(a, d, Len(a), 0) IN <<Trim(r[1]), r[2]>>

\* floor(a / 2^n)
BigShr(a, n) ==
    LET dropped == IF n \div 15 >= Len(a) THEN << >>
                   ELSE SubSeq(a, n \div 15 + 1, Len(a))
    IN  BigDivSmall(dropped, 2 ^ (n % 15))[1]

RECURSIVE BitsOfInt(_)
BitsOfInt(n) == IF n = 0 THEN 0 ELSE 1 + BitsOfInt(n \div 2)

BigBitLen(a) == IF a = << >> THEN 0 ELSE 15 * (Len(a) - 1) + BitsOfInt(a[Len(a)])

BigOdd(a) == a # << >> /\ a[1] % 2 = 1

\* The nearest float, ties to even, of the real number n * 2^e, or of a real
\* number strictly between n * 2^e and (n + 1) * 2^e when sticky is true (n
\* then has more than 54 bits).
Round64(n, e, sticky) ==
    LET sh   == BigBitLen(n) - 53
        q    == BigShr(n, sh)
        r    == BigSub(n, BigShl(q, sh))
        half == BigShl(<<1>>, sh - 1)
        up   == \/ BigLess(half, r)
                \/ r = half /\ (sticky \/ BigOdd(q))
    IN  IF sh <= 0 THEN [m |-> n, e |-> e]
        ELSE [m |-> (IF up THEN BigAdd(q, <<1>>) ELSE q), e |-> e + sh]

F64Zero == [m |-> << >>, e |-> 0]

MinE(x, y) == IF x.e < y.e THEN x.e ELSE y.e

\* the natural number x / 2^e for e <= x.e
Scaled(x, e) == BigShl(x.m, x.e - e)

F64Less(x, y) == BigLess(Scaled(x, MinE(x, y)), Scaled(y, MinE(x, y)))

F64Eq(x, y) == Scaled(x, MinE(x, y)) = Scaled(y, MinE(x, y))

F64Add(x, y) ==
    Round64(BigAdd(Scaled(x, MinE(x, y)), Scaled(y, MinE(x, y))), MinE(x, y), FALSE)

\* |x - y|
F64AbsSub(x, y) ==
    LET a == Scaled(x, MinE(x, y))
        b == Scaled(y, MinE(x, y))
    IN  Round64(IF BigLess(a, b) THEN BigSub(b, a) ELSE BigSub(a, b), MinE(x, y), FALSE)

F64Mul(x, y) == Round64(BigMul(x.m, y.m), x.e + y.e, FALSE)

\* floor(sqrt(n)) for 0 <= n < 2^31: the bits of the root from bit i downwards
RECURSIVE IntSqrtFrom(_, _, _)
IntSqrtFrom(n, r, i) ==
    IF i < 0 THEN r
    ELSE IF r + 2 ^ i <= n \div (r + 2 ^ i) THEN IntSqrtFrom(n, r + 2 ^ i, i - 1)
    ELSE IntSqrtFrom(n, r, i - 1)

\* A natural number below 2^58 as <<high, low>>, of value high * 2^28 + low
\* with low < 2^28.
Wide == 2 ^ 28

\* x * s for s = 2 or s = 4
WideTimes(x, s) == LET l == x[2] * s IN <<x[1] * s + l \div Wide, l % Wide>>

\* x + 1 for an even x
WideInc(x) == <<x[1], x[2] + 1>>

WideLess(x, y) == x[1] < y[1] \/ (x[1] = y[1] /\ x[2] < y[2])

\* x - y for x >= y
WideSub(x, y) ==
    IF x[2] >= y[2] THEN <<x[1] - y[1], x[2] - y[2]>>
    ELSE <<x[1] - y[1] - 1, x[2] - y[2] + Wide>>

BigOfWide(x) == BigAdd(BigShl(BigOfInt(x[1]), 28), BigOfInt(x[2]))

\* k more binary digits of a square root, digit by digit: r is the root so
\* far and rem the remainder so far, <<root, remainder>> the result
RECURSIVE SqrtDigits(_, _, _)
SqrtDigits(r, rem, k) ==
    IF k = 0 THEN <<r, rem>>
    ELSE LET t == WideInc(WideTimes(r, 4))
             m == WideTimes(rem, 4)
         IN  IF WideLess(m, t) THEN SqrtDigits(WideTimes(r, 2), m, k - 1)
             ELSE SqrtDigits(WideInc(WideTimes(r, 2)), WideSub(m, t), k - 1)

\* sqrt of the natural number n < 2^31: the integer part of the root and as
\* many binary digits after it as give 55 bits
F64Sqrt(n) ==
    LET r0 == IntSqrtFrom(n, 0, 15)
        k  == 55 - BitsOfInt(r0)
        r  == SqrtDigits(<<0, r0>>, <<0, n - r0 * r0>>, k)
    IN  IF n = 0 THEN F64Zero ELSE Round64(BigOfWide(r[1]), -k, r[2] # <<0, 0>>)

\* k / d for naturals k and 0 < d < 2^15
F64Div(k, d) ==
    LET qr == BigDivSmall(BigShl(BigOfInt(k), 75), d)
    IN  IF k = 0 THEN F64Zero ELSE Round64(qr[1], -75, qr[2] # 0)

(***************************************************************************)
(* get_quantile_point, lines 149-151, on a path of integer points; the     *)
(* quantile is the float nearest to the fraction <<numerator,              *)
(* denominator>>.                                                          *)
(***************************************************************************)
\* np.linalg.norm of a point difference
Norm(u) == F64Sqrt(Norm2(u))

\* np.linalg.norm(np.diff(path, axis=0), axis=1), from segment k onwards
RECURSIVE SegmentsFrom(_, _)
SegmentsFrom(p, k) ==
    IF k > Len(p) - 1 THEN << >>
    ELSE <<Norm(Sub(p[k + 1], p[k]))>> \o SegmentsFrom(p, k + 1)

\* np.cumsum of the segment lengths seg from position k onwards, after the
\* running sum last
RECURSIVE CumSumFrom(_, _, _)
CumSumFrom(seg, k, last) ==
    IF k > Len(seg) THEN << >>
    ELSE LET s == IF k = 1 THEN seg[1] ELSE F64Add(last, seg[k])
         IN  <<s>> \o CumSumFrom(seg, k + 1, s)

\* faulty variant, for comparison: the segment lengths, not their running sum
CumDistance_nocumsum(p) == SegmentsFrom(p, 1)

CumDistance(p) == CumSumFrom(SegmentsFrom(p, 1), 1, F64Zero)

\* np.abs(cum_distance - target), from position k onwards
RECURSIVE AbsDiffFrom(_, _, _)
AbsDiffFrom(cum, target, k) ==
    IF k > Len(cum) THEN << >>
    ELSE <<F64AbsSub(cum[k], target)>> \o AbsDiffFrom(cum, target, k + 1)

\* np.argmin of d from position k onwards, best being the first minimum before k
RECURSIVE ArgMinFrom(_, _, _)
ArgMinFrom(d, k, best) ==
    IF k > Len(d) THEN best
    ELSE IF F64Less(d[k], d[best]) THEN ArgMinFrom(d, k + 1, k)
    ELSE ArgMinFrom(d, k + 1, best)

\* np.abs(cum_distance - cum_distance[-1] * quantile) of line 150
QuantileDistance(p, q) ==
    LET cum == CumDistance(p)
    IN  AbsDiffFrom(cum, F64Mul(cum[Len(cum)], F64Div(q[1], q[2])), 1)

\* <<exception, q_point_idx>>; cum_distance[-1] of a path of fewer than two
\* points raises IndexError
get_quantile_point(p, q) ==
    IF Len(p) < 2 THEN <<"IndexError", -1>>
    ELSE <<"none", ArgMinFrom(QuantileDistance(p, q), 2, 1) - 1>>

(***************************************************************************)
(* divide_mask, lines 170-177.  cv2.line of thickness 2 is modelled as the *)
(* pixels at distance at most 1 from the segment.                          *)
(***************************************************************************)
DivideSpace == 50   \* space of divide_mask
Multiplier == 6     \* multiplier of divide_mask

\* int(v / Scale): truncation towards zero
IntScaled(v) == IF v >= 0 THEN v \div Scale ELSE -((-v) \div Scale)

LinePixels(a, b) ==
    LET d  == Sub(b, a)
        dd == Norm2(d)
    IN  {p \in Pixels :
            LET w == Sub(p, a)
                t == Dot(w, d)
                c == w[1] * d[2] - w[2] * d[1]
            IN  IF dd = 0 \/ t <= 0 THEN Norm2(w) <= 1
                ELSE IF t >= dd THEN Norm2(Sub(p, b)) <= 1
                ELSE c * c <= dd}

\* lines 171-176: the two ends of the cut, from path[mid_point_idx] and
\* path[mid_point_idx + space] of the midline p (units of 1/Scale)
CutEnds(p) ==
    LET p1 == p.read[1]
        p2 == p.read[2]
        n  == <<p2[2] - p1[2], p1[1] - p2[1]>>     \* Scale times normal_vector
    IN  << <<IntScaled(p1[1] + Multiplier * n[1]), IntScaled(p1[2] + Multiplier * n[2])>>,
           <<IntScaled(p1[1] - Multiplier * n[1]), IntScaled(p1[2] - Multiplier * n[2])>> >>

Erase(m, S) == [y \in Rows |-> [x \in Cols |-> IF <<x, y>> \in S THEN 0 ELSE m[y][x]]]

\* faulty variant, for comparison: the line is drawn on the array passed in (no copy)
divide_mask_inplace(m, p, i) ==
    IF i[1] + DivideSpace > p.len - 1 THEN [err |-> "IndexError", temp |-> m, mask |-> m]
    ELSE LET e == CutEnds(p)
             t == Erase(m, LinePixels(e[1], e[2]))
         IN  [err |-> "none", temp |-> t, mask |-> t]

\* the arrays after the call: temp, the array returned, and mask, the array
\* passed in; path[mid_point_idx + space] beyond the end raises IndexError.
\* The index i is a range <<lowest, highest>> that lies either wholly within
\* or wholly beyond the indices that leave space samples after them.
divide_mask(m, p, i) ==
    IF i[1] + DivideSpace > p.len - 1 THEN [err |-> "IndexError", temp |-> m, mask |-> m]
    ELSE LET e == CutEnds(p)
         IN  [err |-> "none", temp |-> Erase(m, LinePixels(e[1], e[2])), mask |-> m]

(***************************************************************************)
(* select_mask, lines 190-198.                                             *)
(***************************************************************************)
\* np.unique: the values of the array in increasing order
RECURSIVE SortedSeq(_)
SortedSeq(S) ==
    IF S = {} THEN << >>
    ELSE LET lo == CHOOSE v \in S : \A w \in S : v <= w
         IN  <<lo>> \o SortedSeq(S \ {lo})

Unique(m) == SortedSeq({m[y][x] : x \in Cols, y \in Rows})

\* the loop of lines 192-197 over labels[k..]
RECURSIVE SelectLoop(_, _, _, _)
SelectLoop(temp, labels, k, a) ==
    IF k > Len(labels) THEN temp
    ELSE LET label_ == labels[k]
             cleared == [y \in Rows |-> [x \in Cols |->
                            IF temp[y][x] = label_ THEN 0 ELSE temp[y][x]]]
         IN  IF label_ = 0 THEN SelectLoop(temp, labels, k + 1, a)
             ELSE IF temp[a[2]][a[1]] # label_
                  THEN SelectLoop(cleared, labels, k + 1, a)
                  ELSE SelectLoop(temp, labels, k + 1, a)

\* faulty variant, for comparison: the anchor's x used as the row and its y as the column
select_mask_xy(m, a) == [temp |-> SelectLoop(m, Unique(m), 1, <<a[2], a[1]>>), mask |-> m]

\* the arrays after the call: temp, the array returned, and mask, the array
\* passed in
select_mask(m, a) == [temp |-> SelectLoop(m, Unique(m), 1, a), mask |-> m]

(***************************************************************************)
(* get_worm_masks, lines 211-219, one action per line.                     *)
(***************************************************************************)
EndpointSpace == 50   \* space of get_endpoint_idx
MaxCalls == 2         \* calls of get_worm_masks on the same arrays

Mk(S) == [y \in Rows |-> [x \in Cols |-> IF <<x, y>> \in S THEN 1 ELSE 0]]

\* a worm one pixel thick, of n pixels, that alternates between rows 0 and 1
Zig(n) == {<<x, x % 2>> : x \in 0 .. (n - 1)}

\* the same worm, two pixels thick
ThickZig(n) == Zig(n) \cup {<<x, (x % 2) + 1>> : x \in 0 .. (n - 1)}

Masks ==
    {Mk(Zig(9)),                                     \* a contour of 16 points
     Mk(Zig(27)),                                    \* a contour of 52 points
     Mk(Zig(9) \cup {<<12, 2>>}),                    \* a worm and a speck, both of area 0
     Mk({<<x, y>> : x \in 1 .. 5, y \in 1 .. 2}),    \* a rectangle
     Mk({<<3, 2>>}),                                 \* one pixel
     ZeroMask}                                       \* no foreground

AntMasks ==
    {Mk({<<x, y>> : x \in 0 .. 3, y \in Rows}),            \* the left end
     Mk({<<x, y>> : x \in 4 .. 26, y \in Rows}),           \* the rest
     ZeroMask}

Quantiles == {<<0, 1>>, <<13, 100>>, <<1, 1>>}

MaxCut == 4           \* largest distance, in each coordinate, between the ends of a cut

\* nothing fitted yet
Unfitted == [known |-> FALSE, read |-> << >>]

\* The index that line 150 returns on the fitted midline, as the range
\* <<lowest, highest>> it lies in.  The cumulative lengths are not negative
\* and do not decrease with the index, so the quantile 0 gives the index 0;
\* the quantile 1 gives the first index at which the whole length is
\* reached, one of the last space - 1 of cum_distance as the midline does not
\* end in space samples at one point; a quantile of Quantiles between the two
\* gives an index that leaves space samples after it.
FitIdx(q) ==
    IF q[1] = 0 THEN <<0, 0>>
    ELSE IF q[1] = q[2] THEN <<NumPoints - DivideSpace, NumPoints - 2>>
    ELSE <<0, NumPoints - 1 - DivideSpace>>

Min(S) == CHOOSE v \in S : \A w \in S : v <= w

Max(S) == CHOOSE v \in S : \A w \in S : v >= w

\* the pairs <<a, b>> of pixel coordinates at most MaxCut apart whose
\* middle lies in lo .. hi
CutPairs(lo, hi) ==
    {ab \in ((lo - MaxCut) .. (hi + MaxCut)) \X ((lo - MaxCut) .. (hi + MaxCut)) :
        /\ ab[1] + ab[2] \in (2 * lo) .. (2 * hi)
        /\ ab[1] - ab[2] \in (0 - MaxCut) .. MaxCut}

\* the two midline points (units of 1/Scale) from which lines 173-176 draw
\* the cut from pixel <<x[1], y[1]>> to pixel <<x[2], y[2]>>
RowsOfCut(x, y) ==
    LET p1 == <<(Scale \div 2) * (x[1] + x[2]), (Scale \div 2) * (y[1] + y[2])>>
    IN  <<p1, <<p1[1] + 2 * (y[2] - y[1]), p1[2] + 2 * (x[1] - x[2])>> >>

\* What the fit can be for the contour p, on a midline of the given two
\* ends: the points of the midline at the index that line 150 returns and
\* space samples further, which are the ones divide_mask reads.  For the
\* quantile 0 the first is the first point of the midline and the second
\* lies at most MaxCut / (2 * Multiplier) pixels from it in each coordinate;
\* for the quantile 1 the second does not exist; otherwise the two are such
\* that the cut is centred within the bounding box of the contour and its
\* ends are pixels at most MaxCut apart.  Lines 173-176 keep of the two
\* points the two pixels between which cv2.line draws, and every pair of
\* points that gives the same two pixels is held as the one pair
\* RowsOfCut gives for them.
Fits(p, ends, q) ==
    LET xs == {p[k][1] : k \in 1 .. Len(p)}
        ys == {p[k][2] : k \in 1 .. Len(p)}
        d  == (0 - 2 * MaxCut) .. (2 * MaxCut)
        p0 == ends.pts[0]
    IN  IF q[1] = 0
        THEN {[known |-> TRUE, read |-> <<p0, <<p0[1] + dx, p0[2] + dy>> >>] :
                 dx \in d, dy \in d}
        ELSE IF q[1] = q[2]
             THEN {[known |-> TRUE, read |-> << >>]}
             ELSE {[known |-> TRUE, read |-> RowsOfCut(x, y)] :
                      x \in CutPairs(Min(xs), Max(xs)), y \in CutPairs(Min(ys), Max(ys))}

\* no index yet
NoIndex == <<-1, -1>>

NoLocals ==
    /\ path = << >>
    /\ idx = -1
    /\ second_idx = -1
    /\ head_idx = -1
    /\ tail_idx = -1
    /\ spline = << >>
    /\ mid_point_idx = NoIndex
    /\ labeled_mask = ZeroMask
    /\ anchor = <<0, 0>>
    /\ ret = << >>

Init ==
    /\ pc = "called"
    /\ err = "none"
    /\ mask \in Masks
    /\ ant_mask \in AntMasks
    /\ quantile \in Quantiles
    /\ space = EndpointSpace
    /\ fitted = Unfitted
    /\ history = << >>
    /\ NoLocals

Raise(e) ==
    /\ err' = e
    /\ pc' = "raised"

\* line 211
Border ==
    /\ pc = "called"
    /\ LET r == get_border_path(mask)
       IN  IF r[1] # "none"
           THEN Raise(r[1]) /\ UNCHANGED path
           ELSE path' = r[2] /\ pc' = "border" /\ UNCHANGED err
    /\ UNCHANGED <<mask, ant_mask, quantile, space, idx, second_idx, head_idx, tail_idx,
                   fitted, spline, mid_point_idx, labeled_mask, anchor, ret, history>>

\* line 212; squeeze() leaves a contour of one point with a single axis, and
\* np.sum(axis=1) then raises AxisError
Endpoints ==
    /\ pc = "border"
    /\ IF Len(path) = 1
       THEN Raise("AxisError") /\ UNCHANGED <<idx, second_idx>>
       ELSE LET r == get_endpoint_idx(path, space, TRUE)
            IN  IF r[1] # "none"
                THEN Raise(r[1]) /\ UNCHANGED <<idx, second_idx>>
                ELSE /\ idx' = r[2]
                     /\ second_idx' = r[3]
                     /\ pc' = "endpoints"
                     /\ UNCHANGED err
    /\ UNCHANGED <<mask, ant_mask, quantile, path, space, head_idx, tail_idx,
                   fitted, spline, mid_point_idx, labeled_mask, anchor, ret, history>>

\* line 213
CheckHead ==
    /\ pc = "endpoints"
    /\ LET r == check_head(path, idx, second_idx, ant_mask)
       IN  /\ head_idx' = r[1]
           /\ tail_idx' = r[2]
    /\ pc' = "head"
    /\ UNCHANGED <<err, mask, ant_mask, quantile, path, space, idx, second_idx,
                   fitted, spline, mid_point_idx, labeled_mask, anchor, ret, history>>

\* line 214; the curves fitted to the same contour are the same in every call
Spline ==
    /\ pc = "head"
    /\ LET r == get_spline(path, head_idx, tail_idx, << >>)
       IN  IF r[1] # "none"
           THEN Raise(r[1]) /\ UNCHANGED <<spline, fitted>>
           ELSE /\ \E f \in IF fitted.known THEN {fitted} ELSE Fits(path, r[2], quantile) :
                     /\ fitted' = f
                     /\ spline' = get_spline(path, head_idx, tail_idx, f.read)[2]
                /\ pc' = "spline"
                /\ UNCHANGED err
    /\ UNCHANGED <<mask, ant_mask, quantile, path, space, idx, second_idx,
                   head_idx, tail_idx, mid_point_idx, labeled_mask, anchor, ret, history>>

\* line 215, on the fitted midline
Quantile ==
    /\ pc = "spline"
    /\ mid_point_idx' = FitIdx(quantile)
    /\ pc' = "quantile"
    /\ UNCHANGED <<err, mask, ant_mask, quantile, path, space, idx, second_idx, head_idx,
                   tail_idx, fitted, spline, labeled_mask, anchor, ret, history>>

\* line 216
Divide ==
    /\ pc = "quantile"
    /\ LET r == divide_mask(mask, spline, mid_point_idx)
       IN  /\ mask' = r.mask
           /\ IF r.err # "none"
              THEN Raise(r.err) /\ UNCHANGED labeled_mask
              ELSE /\ labeled_mask' = Label(Foreground(r.temp))
                   /\ pc' = "labeled"
                   /\ UNCHANGED err
    /\ UNCHANGED <<ant_mask, quantile, path, space, idx, second_idx, head_idx,
                   tail_idx, fitted, spline, mid_point_idx, anchor, ret, history>>

\* line 217
SelectAnt ==
    /\ pc = "labeled"
    /\ anchor' = At(path, head_idx)
    /\ LET r == select_mask(labeled_mask, anchor')
       IN  /\ ret' = <<r.temp>>
           /\ labeled_mask' = r.mask
    /\ pc' = "ant"
    /\ UNCHANGED <<err, mask, ant_mask, quantile, path, space, idx, second_idx,
                   head_idx, tail_idx, fitted, spline, mid_point_idx, history>>

\* lines 218-219
SelectPost ==
    /\ pc = "ant"
    /\ anchor' = At(path, tail_idx)
    /\ LET r == select_mask(labeled_mask, anchor')
       IN  /\ ret' = Append(ret, r.temp)
           /\ labeled_mask' = r.mask
    /\ pc' = "returned"
    /\ UNCHANGED <<err, mask, ant_mask, quantile, path, space, idx, second_idx,
                   head_idx, tail_idx, fitted, spline, mid_point_idx, history>>

\* the caller calls get_worm_masks again with the same arrays and quantile
CallAgain ==
    /\ pc \in {"returned", "raised"}
    /\ Len(history) + 1 < MaxCalls
    /\ history' = Append(history, [err |-> err, ret |-> ret])
    /\ pc' = "called"
    /\ err' = "none"
    /\ path' = << >>
    /\ idx' = -1
    /\ second_idx' = -1
    /\ head_idx' = -1
    /\ tail_idx' = -1
    /\ spline' = << >>
    /\ mid_point_idx' = NoIndex
    /\ labeled_mask' = ZeroMask
    /\ anchor' = <<0, 0>>
    /\ ret' = << >>
    /\ UNCHANGED <<mask, ant_mask, quantile, space, fitted>>

Next ==
    \/ Border
    \/ Endpoints
    \/ CheckHead
    \/ Spline
    \/ Quantile
    \/ Divide
    \/ SelectAnt
    \/ SelectPost
    \/ CallAgain

Spec == Init /\ [][Next]_vars

(***************************************************************************)
(* Endpoint specification: get_endpoint_idx on every closed contour (no    *)
(* two consecutive points equal, the last and the first included) of the   *)
(* bounded coordinates.                                                    *)
(***************************************************************************)
Closed(p) == \A k \in 1 .. Len(p) : p[k] # p[(k % Len(p)) + 1]

Contours == UNION {{p \in [1 .. L -> Points] : Closed(p)} : L \in 3 .. MaxLen}

InitEndpoint ==
    /\ pc = "border"
    /\ err = "none"
    /\ mask = ZeroMask
    /\ ant_mask = ZeroMask
    /\ quantile = <<0, 1>>
    /\ space \in 1 .. MaxSpace
    /\ fitted = Unfitted
    /\ history = << >>
    /\ path \in Contours
    /\ idx = -1
    /\ second_idx = -1
    /\ head_idx = -1
    /\ tail_idx = -1
    /\ spline = << >>
    /\ mid_point_idx = -1
    /\ labeled_mask = ZeroMask
    /\ anchor = <<0, 0>>
    /\ ret = << >>

\* get_endpoint_idx(path, space, second)
EndpointIdx ==
    /\ pc = "border"
    /\ \E second \in BOOLEAN :
          LET r == get_endpoint_idx(path, space, second)
          IN  /\ err' = r[1]
              /\ idx' = r[2]
              /\ second_idx' = r[3]
              /\ pc' = IF r[1] # "none" THEN "raised"
                       ELSE IF second THEN "endpoints" ELSE "endpoint"
    /\ UNCHANGED <<mask, ant_mask, quantile, path, space, head_idx, tail_idx,
                   fitted, spline, mid_point_idx, labeled_mask, anchor, ret, history>>

NextEndpoint == EndpointIdx

SpecEndpoint == InitEndpoint /\ [][NextEndpoint]_vars

(***************************************************************************)
(* Head specification: check_head on every path of the bounded             *)
(* coordinates, every pair of indices and every anterior mask over them.   *)
(***************************************************************************)
MaxHeadLen == 2

HeadMasks == {Mk(S) : S \in SUBSET {<<0, 0>>, <<1, 0>>, <<2, 0>>, <<1, 1>>}}

InitHead ==
    /\ pc = "endpoints"
    /\ err = "none"
    /\ mask = ZeroMask
    /\ ant_mask \in HeadMasks
    /\ quantile = <<0, 1>>
    /\ space = 0
    /\ fitted = Unfitted
    /\ history = << >>
    /\ path \in UNION {[1 .. L -> Points] : L \in 1 .. MaxHeadLen}
    /\ idx \in 0 .. (Len(path) - 1)
    /\ second_idx \in 0 .. (Len(path) - 1)
    /\ head_idx = -1
    /\ tail_idx = -1
    /\ spline = << >>
    /\ mid_point_idx = -1
    /\ labeled_mask = ZeroMask
    /\ anchor = <<0, 0>>
    /\ ret = << >>

NextHead == CheckHead

SpecHead == InitHead /\ [][NextHead]_vars

(***************************************************************************)
(* Spline specification: get_spline on the contours of worms of 5 and 6    *)
(* pixels, started at each of their points, with every pair of indices as  *)
(* head and tail.                                                          *)
(***************************************************************************)
SplineMasks == {Mk(Zig(5)), Mk(Zig(6)), Mk(ThickZig(4))}

SplinePaths ==
    UNION {{Rotate(get_border_path(m)[2], k) : k \in 0 .. (Len(get_border_path(m)[2]) - 1)} :
              m \in SplineMasks}

InitSpline ==
    /\ pc = "head"
    /\ err = "none"
    /\ mask = ZeroMask
    /\ ant_mask = ZeroMask
    /\ quantile = <<0, 1>>
    /\ space = 0
    /\ fitted = Unfitted
    /\ history = << >>
    /\ path \in SplinePaths
    /\ idx = -1
    /\ second_idx = -1
    /\ head_idx \in 0 .. (Len(path) - 1)
    /\ tail_idx \in 0 .. (Len(path) - 1)
    /\ spline = << >>
    /\ mid_point_idx = -1
    /\ labeled_mask = ZeroMask
    /\ anchor = <<0, 0>>
    /\ ret = << >>

\* get_spline(path, head_idx, tail_idx), of which the two ends are looked at
GetSpline ==
    /\ pc = "head"
    /\ LET r == get_spline(path, head_idx, tail_idx, << >>)
       IN  IF r[1] # "none"
           THEN Raise(r[1]) /\ UNCHANGED spline
           ELSE spline' = r[2] /\ pc' = "spline" /\ UNCHANGED err
    /\ UNCHANGED <<mask, ant_mask, quantile, path, space, idx, second_idx, head_idx,
                   tail_idx, fitted, mid_point_idx, labeled_mask, anchor, ret, history>>

NextSpline == GetSpline

SpecSpline == InitSpline /\ [][NextSpline]_vars

(***************************************************************************)
(* Quantile specification: get_quantile_point twice on the same path, of   *)
(* at most MaxMidLen integer points, with every pair of quantiles          *)
(* k / QDen.                                                               *)
(***************************************************************************)
MaxMidLen == 4
QDen == 4

MidPoints == {<<0, 1>>, <<2, 0>>, <<2, 2>>}

InitQuantile ==
    /\ pc = "spline"
    /\ err = "none"
    /\ mask = ZeroMask
    /\ ant_mask = ZeroMask
    /\ quantile \in {<<k, QDen>> : k \in 0 .. QDen}
    /\ space = 0
    /\ fitted = Unfitted
    /\ history = << >>
    /\ path \in UNION {[1 .. N -> MidPoints] : N \in 1 .. MaxMidLen}
    /\ idx = -1
    /\ second_idx = -1
    /\ head_idx = -1
    /\ tail_idx = -1
    /\ spline = << >>
    /\ mid_point_idx = -1
    /\ labeled_mask = ZeroMask
    /\ anchor = <<0, 0>>
    /\ ret = << >>

\* get_quantile_point(path, quantile)
QuantilePoint ==
    /\ pc = "spline"
    /\ LET r == get_quantile_point(path, quantile)
       IN  IF r[1] # "none"
           THEN Raise(r[1]) /\ UNCHANGED mid_point_idx
           ELSE mid_point_idx' = r[2] /\ pc' = "quantile" /\ UNCHANGED err
    /\ UNCHANGED <<mask, ant_mask, quantile, path, space, idx, second_idx, head_idx,
                   tail_idx, fitted, spline, labeled_mask, anchor, ret, history>>

\* a second call on the same path, with a larger quantile
QuantileAgain ==
    /\ pc = "quantile"
    /\ history = << >>
    /\ history' = <<[quantile |-> quantile, idx |-> mid_point_idx]>>
    /\ \E k \in 0 .. QDen :
          /\ k * quantile[2] > quantile[1] * QDen
          /\ quantile' = <<k, QDen>>
    /\ pc' = "spline"
    /\ UNCHANGED <<err, mask, ant_mask, path, space, idx, second_idx, head_idx, tail_idx,
                   fitted, spline, mid_point_idx, labeled_mask, anchor, ret>>

NextQuantile ==
    \/ QuantilePoint
    \/ QuantileAgain

SpecQuantile == InitQuantile /\ [][NextQuantile]_vars

(***************************************************************************)
(* Select specification: select_mask on every array of labels 0..MaxLabel  *)
(* over the bounded coordinates, with every anchor among them.             *)
(***************************************************************************)
MaxLabel == 2

LabelArrays ==
    {[y \in Rows |-> [x \in Cols |-> IF <<x, y>> \in Points THEN f[<<x, y>>] ELSE 0]] :
        f \in [Points -> 0 .. MaxLabel]}

InitSelect ==
    /\ pc = "labeled"
    /\ err = "none"
    /\ mask = ZeroMask
    /\ ant_mask = ZeroMask
    /\ quantile = <<0, 1>>
    /\ space = 0
    /\ fitted = Unfitted
    /\ history = << >>
    /\ path = << >>
    /\ idx = -1
    /\ second_idx = -1
    /\ head_idx = -1
    /\ tail_idx = -1
    /\ spline = << >>
    /\ mid_point_idx = -1
    /\ labeled_mask \in LabelArrays
    /\ anchor \in Points
    /\ ret = << >>

\* select_mask(labeled_mask, anchor)
Select ==
    /\ pc = "labeled"
    /\ LET r == select_mask(labeled_mask, anchor)
       IN  /\ ret' = <<r.temp>>
           /\ labeled_mask' = r.mask
    /\ pc' = "selected"
    /\ UNCHANGED <<err, mask, ant_mask, quantile, path, space, idx, second_idx,
                   head_idx, tail_idx, fitted, spline, mid_point_idx, anchor, history>>

NextSelect == Select

SpecSelect == InitSelect /\ [][NextSelect]_vars

(***************************************************************************)
(* Properties.                                                             *)
(***************************************************************************)
NonZero(m) == {q \in Pixels : m[q[2]][q[1]] # 0}

\* the pixels of the cut drawn by divide_mask in this call
Cut == LET e == CutEnds(spline) IN LinePixels(e[1], e[2])

\* C1 as claimed: the two masks returned by get_worm_masks do not overlap and
\* the union of their non-zero pixels is the foreground of the input mask.
C1_Partition ==
    pc = "returned" =>
        /\ NonZero(ret[1]) \cap NonZero(ret[2]) = {}
        /\ NonZero(ret[1]) \cup NonZero(ret[2]) = Foreground(mask)

\* C2 as claimed, with the band taken at its narrowest (the L//4 contour
\* positions before the primary endpoint, the endpoint itself and the
\* L//4 - 1 positions after it, all inside [primary - L/4, primary + L/4]):
\* for a contour of length L >= 4 and space < L/2, get_endpoint_idx returns
\* two indices in [0, L) and the second lies outside the guard band, repeated
\* coordinates or not.
C2_SecondOutsideGuardBand ==
    (pc = "endpoints" /\ Len(path) >= 4 /\ 2 * space < Len(path)) =>
        LET L   == Len(path)
            off == (second_idx - idx) % L
        IN  /\ err = "none"
            /\ idx \in 0 .. (L - 1)
            /\ second_idx \in 0 .. (L - 1)
            /\ off >= Skip(path)
            /\ L - off > Skip(path)

\* C3: check_head returns the two endpoints, in one order or the other, and
\* whenever either endpoint lies on a non-zero pixel of the anterior mask the
\* head does (so the head is the endpoint on the anterior mask and the tail
\* the other one).
C3_HeadOnAnterior ==
    pc = "head" =>
        /\ <<head_idx, tail_idx>> \in {<<idx, second_idx>>, <<second_idx, idx>>}
        /\ (Px(ant_mask, At(path, idx)) # 0 \/ Px(ant_mask, At(path, second_idx)) # 0)
              => Px(ant_mask, At(path, head_idx)) # 0

\* C3 witness: the primary endpoint is off the anterior mask, the second is on
\* it, and check_head swapped them.
C3_Witness ==
    /\ pc = "head"
    /\ Px(ant_mask, At(path, idx)) = 0
    /\ Px(ant_mask, At(path, second_idx)) # 0
    /\ head_idx = second_idx
    /\ tail_idx = idx
    /\ head_idx # tail_idx

\* squared distance of a midline point (units of 1/Scale) from path[head_idx]
HeadDist2(q) ==
    Norm2(Sub(q, <<Scale * At(path, head_idx)[1], Scale * At(path, head_idx)[2]>>))

\* the first and the last point of the midline
SplineFirst == spline.pts[0]

SplineLast == spline.pts[spline.len - 1]

\* C4: the first point of the midline returned by get_spline is at most as
\* far from path[head_idx] as its last point, whichever index is smaller.
C4_MidlineStartsAtHead ==
    (pc = "spline" /\ err = "none") =>
        HeadDist2(SplineFirst) <= HeadDist2(SplineLast)

\* C4 witness: a midline returned for a head index larger than the tail
\* index, turned round by line 135 (its first point is the middle of
\* path[head_idx - 1] and path[head_idx]), its first point strictly nearer
\* the head than its last.
C4_Witness ==
    /\ pc = "spline"
    /\ err = "none"
    /\ head_idx > tail_idx
    /\ SplineFirst = <<(Scale \div 2) * (At(path, head_idx - 1)[1] + At(path, head_idx)[1]),
                       (Scale \div 2) * (At(path, head_idx - 1)[2] + At(path, head_idx)[2])>>
    /\ SplineFirst # SplineLast
    /\ HeadDist2(SplineFirst) < HeadDist2(SplineLast)

\* the cumulative arc length of the path p at its index i (the length of the
\* first i + 1 segments)
ArcLengthAt(p, i) == CumSumFrom(SegmentsFrom(p, 1), 1, F64Zero)[i + 1]

C7_SelectKeepsAnchorLabel ==
    pc = "selected" =>
        /\ err = "none"
        /\ \A q \in Pixels :
              Px(ret[1], q) = IF /\ Px(labeled_mask, q) # 0
                                 /\ Px(labeled_mask, q) = Px(labeled_mask, anchor)
                              THEN Px(labeled_mask, q)
                              ELSE 0
        /\ Px(labeled_mask, anchor) = 0 => ret[1] = ZeroMask

\* C7 witness: an array with two labels, the anchor on one of them; that one
\* is kept and the other one is zeroed.
C7_Witness ==
    /\ pc = "selected"
    /\ Px(labeled_mask, anchor) # 0
    /\ \E q \in Pixels : Px(labeled_mask, q) \notin {0, Px(labeled_mask, anchor)}
    /\ NonZero(ret[1]) # {}
    /\ NonZero(ret[1]) # NonZero(labeled_mask)

\* C8 as claimed: on a mask with no foreground pixel get_worm_masks fails with
\* the dedicated EmptyInputError of the Border Extractor, and returns no mask.
C8_EmptyInputError ==
    (Foreground(mask) = {} /\ pc # "called") =>
        /\ pc = "raised"
        /\ err = "EmptyInputError"
        /\ ret = << >>

\* C9 as claimed: when the index returned by get_quantile_point plus the
\* space lies beyond the last midline index, get_worm_masks fails with an
\* explicit GeometryError and returns no mask.
C9_GeometryError ==
    (pc \in {"labeled", "ant", "returned", "raised"}
        /\ mid_point_idx # NoIndex
        /\ mid_point_idx[1] + DivideSpace > NumPoints - 1) =>
        /\ pc = "raised"
        /\ err = "GeometryError"
        /\ ret = << >>

\* the indices of the smallest angles among the indices S
MinAngle(S) ==
    {i \in S : \A j \in S : ~AngleLess(At(Angles(path, space), j), At(Angles(path, space), i))}

\* the indices outside the guard band around the primary endpoint
OutsideBand ==
    {i \in 0 .. (Len(path) - 1) :
        LET off == (i - idx) % Len(path)
        IN  off >= Skip(path) /\ Len(path) - off > Skip(path)}

\* C10 as claimed: when several contour points share the smallest angle,
\* get_endpoint_idx returns without error the lowest index among them as the
\* primary endpoint and, as the second endpoint, the lowest index among those
\* of them that lie outside the guard band.
C10_LowestIndexTieBreak ==
    LET all == 0 .. (Len(path) - 1)
    IN  (/\ pc \in {"endpoints", "raised"}
         /\ Len(path) >= 4
         /\ \A i \in all : ~At(Angles(path, space), i).nan
         /\ Cardinality(MinAngle(all)) > 1
         /\ MinAngle(all) \cap OutsideBand # {}) =>
            /\ err = "none"
            /\ \A i \in MinAngle(all) : idx <= i
            /\ idx \in MinAngle(all)
            /\ second_idx \in MinAngle(all) \cap OutsideBand
            /\ \A i \in MinAngle(all) \cap OutsideBand : second_idx <= i

====
